---------------------------- MODULE Spec2Model ----------------------------
(***************************************************************************)
(* tunio: the per-platform Queue.                                          *)
(*                                                                         *)
(* Thread-Bridged Queue (src/tunio/src/platform/wintun/queue.rs): a        *)
(* dedicated receive thread pulls frames from the driver and forwards them *)
(* through a bounded channel; the consumer pops them with read/poll_read;  *)
(* writes go to the driver directly (write) or through blocking tasks      *)
(* that report through a single-slot status channel (poll_write); Drop     *)
(* signals the shutdown event, joins the receive thread and ends the       *)
(* session.                                                                *)
(*                                                                         *)
(* The receive path and the transmit path share no state of the Queue, so  *)
(* they are explored by two specifications over the same variables:        *)
(* SpecRead (receive thread, consumer reads, Drop) and SpecWrite (writes,  *)
(* blocking tasks); SpecWriteDrop puts the blocking tasks next to Drop.    *)
(*                                                                         *)
(* Readiness-Driven Queue (src/tunio/src/platform/linux/queue.rs): a       *)
(* non-blocking device descriptor registered with the runtime's I/O        *)
(* driver; poll_read loops on cached readiness and try_io.  It is explored *)
(* by SpecLinux.                                                           *)
(***************************************************************************)
EXTENDS Integers, Sequences, FiniteSets, TLC

\* ------------------------------------------------------------------ bounds
\* Longest frame the driver hands out, longest caller read buffer.
MaxFrameLen == 2
MaxBufLen == 2
\* Frames the driver hands out in a run with mixed frame lengths.
MaxFrames == 2
\* Frames the driver hands out in a burst run (one frame length, one buffer
\* length): enough to deliver one frame, fill the frame channel and leave one
\* frame in the receive thread's hands.
BurstFrames == 18
\* Wakers that may sit in the waker-forwarding channel (unbounded in the code).
MaxWakers == 2
\* Blocking tasks poll_write may dispatch in a run.
MaxSpawn == 2

\* Packets the kernel queues on the Linux device in one run.
MaxLinuxPackets == 2

\* ------------------------------------------------------- program constants
\* crossbeam_channel::bounded(16): the frame channel.
PacketCap == 16
\* crossbeam_channel::bounded(1): the write-status channel.
StatusCap == 1
\* Win32 codes used by the receive thread and by do_write.
ERROR_BUFFER_OVERFLOW == 111
ERROR_NO_MORE_ITEMS == 259
WAIT_OBJECT_0 == 0
WAIT_OBJECT_1 == WAIT_OBJECT_0 + 1
\* The driver's other last-error codes, which the code does not single out:
\* ERROR_HANDLE_EOF (38), what Wintun reports when the adapter is going away.
OtherErrors == {38}
\* The other results of the dual wait: WAIT_FAILED (0xFFFFFFFF, written as
\* the same 32 bits read as signed).
OtherWaitResults == {-1}

\* The wakers a poll can be called with (cx.waker()).
Wakers == {"w1", "w2"}
\* No frame / no waker.
NoFrame == <<>>
NoWaker == "none"

VARIABLES
    workload,       \* what the environment does in this run: frame lengths,
                    \* caller buffer lengths, wakers, number of frames
    emitted,        \* frames the driver has handed to the receive thread
    rpc,            \* receive thread: recv, send, drain, wake, wait, exited, panicked
    rframe,         \* the frame the receive thread holds (buffer.split().freeze())
    rerr,           \* the receive thread's last_os_error()
    rwaker,         \* the waker the receive thread took and is about to wake
    packets,        \* frame channel (packet_tx -> packet_rx), FIFO
    wakers,         \* waker-forwarding channel (reader_wakers_tx -> wakers_rx)
    woken,          \* wakers that have been woken and not used by a poll_read since
    shutdownEvent,  \* shutdown_event, manual reset
    dpc,            \* Drop: live, joining, ending, dropped
    session,        \* driver session: open, ended
    cpc,            \* consumer: idle, registering, suspended
    cwaker,         \* waker of the poll_read in progress or suspended
    cbuf,           \* buf.remaining() of the poll_read in progress
    popped,         \* history: ids of the frames popped by completed reads
    discarded,      \* history: bytes cut off by truncating reads
    lastRead,       \* history: the outcome of the latest read / poll_read
    status,         \* write-status channel (write_status_tx -> write_status_rx)
    tasks,          \* the blocking tasks dispatched by poll_write and not ended
    spawned,        \* number of blocking tasks dispatched so far
    lastWrite,      \* history: the outcome of the latest write / poll_write
    sentBy,         \* history: <<logical write, task>> of every WintunSendPacket
    llayer,         \* Linux queue: the configured Layer, L2 or L3
    lflags,         \* Linux queue: ifr_flags handed to TUNSETIFF
    lpc,            \* Linux queue: absent, new, idle, await, tryio, suspended
    lready,         \* Linux queue: read readiness cached by the AsyncFd
    lq,             \* Linux queue: packets waiting in the kernel device
    larrived,       \* Linux queue: packets the kernel has queued so far
    lcap,           \* buf.capacity() of the poll_read in progress
    lfilled,        \* buf.filled().len() of the poll_read in progress
    lretries,       \* would-block attempts of the poll_read in progress
    lraw,           \* the latest answer of the file's read
    llast           \* history: the outcome of the latest Linux read / poll_read

readVars == <<workload, emitted, rpc, rframe, rerr, rwaker, packets, wakers, woken,
              cpc, cwaker, cbuf, popped, discarded, lastRead>>
writeVars == <<status, tasks, spawned, lastWrite, sentBy>>
dropVars == <<shutdownEvent, dpc, session>>
linuxVars == <<llayer, lflags, lpc, lready, lq, larrived, lcap, lfilled,
               lretries, lraw, llast>>
vars == <<readVars, writeVars, dropVars, linuxVars>>

\* ----------------------------------------------------------------- helpers
\* Min without the comparison: the whole message is copied.
MinTakesSecond(a, b) == b

\* std::cmp::min
Min(a, b) == IF a < b THEN a ELSE b

Range(s) == {s[i] : i \in 1..Len(s)}
Last(s) == s[Len(s)]

\* The bytes of the n-th frame of the driver, of length len: every byte of a
\* run is distinct, so a byte names its frame and its place.
FrameBytes(n, len) == [p \in 1..len |-> n * 16 + p]
FrameId(f) == f[1] \div 16

Terminated == {"exited", "panicked"}

\* ---------------------------------------------------------------- channels
\* crossbeam_channel::Receiver::try_recv: a message if one is queued, else
\* Disconnected if every sender is gone, else Empty.
TryRecv(ch, senderAlive) ==
    IF ch # <<>> THEN [tag |-> "Ok", msg |-> Head(ch)]
    ELSE IF senderAlive THEN [tag |-> "Empty", msg |-> NoFrame]
    ELSE [tag |-> "Disconnected", msg |-> NoFrame]

\* The channel after try_recv returned recv: a message received has left it.
AfterTryRecv(ch, recv) == IF recv.tag = "Ok" THEN Tail(ch) ELSE ch

\* crossbeam_channel::Sender::send on bounded(cap): blocks while cap messages
\* are queued.
CanSend(ch, cap) == Len(ch) < cap

\* --------------------------------------------------------------- Read::read
\* <[u8]>::copy_from_slice(dst, src) panics unless the two slices have the
\* same length.
CopyFromSlicePanics(dstLen, src) == dstLen # Len(src)

\* Read::read with the Disconnected arm merged into the Empty arm.
ReadDisconnectedWouldBlock(recv, M) ==
    CASE recv.tag \in {"Empty", "Disconnected"} ->
            [kind |-> "WouldBlock", n |-> 0, data |-> <<>>]
      [] recv.tag = "Ok" ->
            LET message == recv.msg
                bytes_to_copy == Min(M, Len(message))
                src == SubSeq(message, 1, bytes_to_copy)
            IN  IF CopyFromSlicePanics(M, src)
                THEN [kind |-> "Panic", n |-> 0, data |-> <<>>]
                ELSE [kind |-> "Ok", n |-> bytes_to_copy, data |-> src]

\* Read::read on a caller buffer of length M, given what try_recv returned.
\* kind: Ok (n bytes, data the bytes written to the buffer), WouldBlock, or
\* Panic (the call aborts, nothing is returned).
Read(recv, M) ==
    CASE recv.tag = "Empty" -> [kind |-> "WouldBlock", n |-> 0, data |-> <<>>]
      [] recv.tag = "Disconnected" -> [kind |-> "Ok", n |-> 0, data |-> <<>>]
      [] recv.tag = "Ok" ->
            LET message == recv.msg
                bytes_to_copy == Min(M, Len(message))
                src == SubSeq(message, 1, bytes_to_copy)
            IN  IF CopyFromSlicePanics(M, src)
                THEN [kind |-> "Panic", n |-> 0, data |-> <<>>]
                ELSE [kind |-> "Ok", n |-> bytes_to_copy, data |-> src]

\* AsyncRead::poll_read, given what read returned on the scratch vector b of
\* buf.remaining() bytes: Ready(Ok) with b[..n] put into the caller's buffer,
\* Pending on WouldBlock, the panic otherwise.
PollRead(r) ==
    CASE r.kind = "Ok" -> [kind |-> "Ok", n |-> r.n, data |-> SubSeq(r.data, 1, r.n)]
      [] r.kind = "WouldBlock" -> [kind |-> "Pending", n |-> 0, data |-> <<>>]
      [] OTHER -> r

\* What a completed call leaves in the history variables; readerGone and
\* chanEmpty are the receive thread and the channel as the call found them.
ReadRecord(op, out, recv, M) ==
    [op |-> op, kind |-> out.kind, n |-> out.n, data |-> out.data, M |-> M,
     frame |-> recv.msg, readerGone |-> rpc \in Terminated,
     chanEmpty |-> packets = <<>>]

NoRead ==
    [op |-> "none", kind |-> "none", n |-> 0, data |-> <<>>, M |-> 0,
     frame |-> NoFrame, readerGone |-> FALSE, chanEmpty |-> TRUE]

\* A call that popped a frame: the channel loses its head; a completed read
\* is logged with the frame's id and the bytes it cut off; a call that
\* panicked has taken its frame out of the channel all the same.
Consume(op, out, recv, M) ==
    /\ packets' = AfterTryRecv(packets, recv)
    /\ lastRead' = ReadRecord(op, out, recv, M)
    /\ popped' = IF recv.tag = "Ok" /\ out.kind = "Ok"
                 THEN Append(popped, FrameId(recv.msg)) ELSE popped
    /\ discarded' = IF recv.tag = "Ok" /\ out.kind = "Ok"
                    THEN discarded \cup
                         {recv.msg[i] : i \in (out.n + 1)..Len(recv.msg)}
                    ELSE discarded

\* The consumer may call into the Queue: it holds &mut Queue, is not inside
\* another call, and Drop has not begun.  A panic out of read or poll_read
\* poisons nothing: a caller that catches the unwind calls again.
ConsumerFree == dpc = "live" /\ cpc \in {"idle", "suspended"}

\* Read::read (sync).
SyncRead ==
    /\ ConsumerFree
    /\ \E M \in workload.bufs :
        LET recv == TryRecv(packets, rpc \notin Terminated)
            out == Read(recv, M)
        IN  /\ Consume("read", out, recv, M)
            /\ cpc' = "idle"
    /\ cwaker' = NoWaker
    /\ cbuf' = 0
    /\ UNCHANGED <<workload, emitted, rpc, rframe, rerr, rwaker, wakers, woken, dropVars, linuxVars,
                   writeVars>>

\* AsyncRead::poll_read up to the end of its call of read: completes unless
\* read reported WouldBlock.
PollReadTry ==
    /\ ConsumerFree
    /\ \E M \in workload.bufs, w \in workload.wakers :
        LET recv == TryRecv(packets, rpc \notin Terminated)
            out == PollRead(Read(recv, M))
        IN  /\ woken' = woken \ {w}
            /\ IF out.kind = "Pending"
               THEN /\ Len(wakers) < MaxWakers
                    /\ cpc' = "registering"
                    /\ cwaker' = w
                    /\ cbuf' = M
                    /\ packets' = AfterTryRecv(packets, recv)
                    /\ UNCHANGED <<lastRead, popped, discarded>>
               ELSE /\ Consume("poll_read", out, recv, M)
                    /\ cpc' = "idle"
                    /\ cwaker' = NoWaker
                    /\ cbuf' = 0
    /\ UNCHANGED <<workload, emitted, rpc, rframe, rerr, rwaker, wakers, dropVars, linuxVars, writeVars>>

\* AsyncRead::poll_read, the WouldBlock arm: send the waker (the error of a
\* send to a channel whose receiver is gone is ignored), return Pending.
PollReadRegister ==
    /\ cpc = "registering"
    /\ wakers' = IF rpc \in Terminated THEN wakers ELSE Append(wakers, cwaker)
    /\ cpc' = "suspended"
    /\ lastRead' = [ReadRecord("poll_read",
                                [kind |-> "Pending", n |-> 0, data |-> <<>>],
                                [tag |-> "Empty", msg |-> NoFrame], cbuf)
                        EXCEPT !.readerGone = FALSE, !.chanEmpty = TRUE]
    /\ cbuf' = 0
    /\ UNCHANGED <<workload, emitted, rpc, rframe, rerr, rwaker, packets, woken, cwaker,
                   popped, discarded, dropVars, linuxVars, writeVars>>

\* ----------------------------------------------------------- receive thread
\* What WintunReceivePacket can answer: a packet of some length, or a null
\* pointer with a last-error code.
ReceiveErrors == {ERROR_NO_MORE_ITEMS} \cup OtherErrors

\* A receive failure that always goes to the dual wait, whatever the error.
AfterReceiveErrorAlwaysWaits(err) == "wait"

\* Where the loop goes after a null packet with last error err: into the
\* dual wait on "no more items", straight back to the receive call otherwise.
AfterReceiveError(err) == IF err = ERROR_NO_MORE_ITEMS THEN "wait" ELSE "recv"

\* reader_thread, WintunReceivePacket returned a packet: its bytes are copied
\* into the owned buffer and the packet is released.
ReaderReceivePacket ==
    /\ rpc = "recv"
    /\ emitted < workload.frames
    /\ \E len \in workload.lens :
        rframe' = FrameBytes(emitted + 1, len)
    /\ emitted' = emitted + 1
    /\ rerr' = 0
    /\ rpc' = "send"
    /\ UNCHANGED <<workload, rwaker, packets, wakers, woken, cpc, cwaker, cbuf, popped,
                   discarded, lastRead, dropVars, linuxVars, writeVars>>

\* reader_thread, WintunReceivePacket returned null.
ReaderReceiveNull ==
    /\ rpc = "recv"
    /\ \E err \in ReceiveErrors :
        /\ rerr' = err
        /\ rpc' = AfterReceiveError(err)
    /\ UNCHANGED <<workload, emitted, rframe, rwaker, packets, wakers, woken, cpc, cwaker,
                   cbuf, popped, discarded, lastRead, dropVars, linuxVars, writeVars>>

\* packet_tx.send(frame): appends at the tail, blocking while the channel is
\* full.  (The receiver lives until Drop has returned, so the expect holds.)
Push(ch, f) == Append(ch, f)

ReaderSend ==
    /\ rpc = "send"
    /\ CanSend(packets, PacketCap)
    /\ packets' = Push(packets, rframe)
    /\ rframe' = NoFrame
    /\ rpc' = "drain"
    /\ UNCHANGED <<workload, emitted, rerr, rwaker, wakers, woken, cpc, cwaker, cbuf,
                   popped, discarded, lastRead, dropVars, linuxVars, writeVars>>

\* A drain that hands back the oldest queued waker instead of the newest.
DrainFirst(ws) == IF ws = <<>> THEN NoWaker ELSE Head(ws)

\* wakers_rx.try_iter().last(): every queued waker is taken out, the last
\* one is returned (None when none was queued).
DrainLast(ws) == IF ws = <<>> THEN NoWaker ELSE Last(ws)

\* reader_thread, if let Some(waker) = wakers_rx.try_iter().last().
ReaderDrain ==
    /\ rpc = "drain"
    /\ rwaker' = DrainLast(wakers)
    /\ wakers' = <<>>
    /\ rpc' = IF DrainLast(wakers) = NoWaker THEN "recv" ELSE "wake"
    /\ UNCHANGED <<workload, emitted, rframe, rerr, packets, woken, cpc, cwaker,
                   cbuf, popped, discarded, lastRead, dropVars, linuxVars,
                   writeVars>>

\* reader_thread, waker.wake() on the waker taken.
ReaderWake ==
    /\ rpc = "wake"
    /\ woken' = woken \cup {rwaker}
    /\ rwaker' = NoWaker
    /\ rpc' = "recv"
    /\ UNCHANGED <<workload, emitted, rframe, rerr, packets, wakers, cpc, cwaker,
                   cbuf, popped, discarded, lastRead, dropVars, linuxVars,
                   writeVars>>

\* WaitForMultipleObjects(&[cmd_event, read_event], false, INFINITE): the
\* lowest signaled index, or a failure code.
WaitResults == {WAIT_OBJECT_0, WAIT_OBJECT_1} \cup OtherWaitResults

WaitCanReturn(result) ==
    CASE result = WAIT_OBJECT_0 -> shutdownEvent
      [] result = WAIT_OBJECT_1 -> ~shutdownEvent
      [] OTHER -> TRUE

\* The match on the wait result.
AfterWait(result) ==
    CASE result = WAIT_OBJECT_0 -> "exited"
      [] result = WAIT_OBJECT_1 -> "recv"
      [] OTHER -> "panicked"

\* reader_thread, the dual wait returns.  A thread that ends drops its
\* wakers_rx (the queued wakers with it) and its packet_tx.
ReaderWait ==
    /\ rpc = "wait"
    /\ \E result \in WaitResults :
        /\ WaitCanReturn(result)
        /\ rpc' = AfterWait(result)
        /\ wakers' = IF AfterWait(result) \in Terminated THEN <<>> ELSE wakers
    /\ UNCHANGED <<workload, emitted, rframe, rerr, rwaker, packets, woken, cpc, cwaker,
                   cbuf, popped, discarded, lastRead, dropVars, linuxVars, writeVars>>

ReaderStep ==
    \/ ReaderReceivePacket
    \/ ReaderReceiveNull
    \/ ReaderSend
    \/ ReaderDrain
    \/ ReaderWake
    \/ ReaderWait

\* --------------------------------------------------------------------- Drop
\* The owner may drop the Queue when it is not inside a call on it (a panic
\* in a call unwinds into the drop).
OwnerCanDrop == dpc = "live" /\ cpc # "registering"

\* self.shutdown_event.set_event()
DropSignal ==
    /\ OwnerCanDrop
    /\ shutdownEvent' = TRUE
    /\ dpc' = "joining"
    /\ UNCHANGED <<readVars, writeVars, linuxVars, session>>

\* A join that does not wait.
JoinReturnsAtOnce(threadPc) == TRUE

\* JoinHandle::join returns once the thread has ended, by return or by panic
\* (the result is ignored).
JoinReturns(threadPc) == threadPc \in Terminated

DropJoin ==
    /\ dpc = "joining"
    /\ JoinReturns(rpc)
    /\ dpc' = "ending"
    /\ UNCHANGED <<readVars, writeVars, linuxVars, shutdownEvent, session>>

\* self.wintun.WintunEndSession(self.session_handle.0)
DropEndSession ==
    /\ dpc = "ending"
    /\ session' = "ended"
    /\ dpc' = "dropped"
    /\ UNCHANGED <<readVars, writeVars, linuxVars, shutdownEvent>>

DropStep ==
    \/ DropSignal
    \/ DropJoin
    \/ DropEndSession

\* --------------------------------------------------------------- transmit
\* The buffers a caller writes: two lengths, no byte in common.
WriteBufs == {<<101>>, <<201, 202>>}

\* What WintunAllocateSendPacket can answer: a packet (0), or a null pointer
\* with a last-error code.
AllocOk == 0
AllocResponses == {AllocOk, ERROR_BUFFER_OVERFLOW} \cup OtherErrors

\* io::Result<usize>
Ok(n) == [ok |-> TRUE, n |-> n, kind |-> "none", code |-> 0]
ErrKind(kind) == [ok |-> FALSE, n |-> 0, kind |-> kind, code |-> 0]
ErrOs(code) == [ok |-> FALSE, n |-> 0, kind |-> "Os", code |-> code]

\* do_write that hands every allocation failure back as the OS error.
DoWriteUntranslated(buf, alloc) ==
    IF alloc = AllocOk THEN Ok(Len(buf)) ELSE ErrOs(alloc)

\* Queue::do_write, given the driver's answer to the allocation.
DoWrite(buf, alloc) ==
    IF alloc = AllocOk
    THEN Ok(Len(buf))
    ELSE IF alloc = ERROR_BUFFER_OVERFLOW
         THEN ErrKind("WouldBlock")
         ELSE ErrOs(alloc)

NoWrite ==
    [op |-> "none", poll |-> "none", result |-> Ok(0), buf |-> <<>>,
     alloc |-> AllocOk, src |-> 0, srcBuf |-> <<>>, write |-> 0,
     srcWrite |-> 0]

\* Write::write (sync): do_write on the caller's thread.
SyncWrite ==
    /\ ConsumerFree
    /\ \E buf \in WriteBufs, alloc \in AllocResponses :
        lastWrite' = [op |-> "write", poll |-> "none",
                      result |-> DoWrite(buf, alloc), buf |-> buf,
                      alloc |-> alloc, src |-> 0, srcBuf |-> buf,
                      write |-> lastWrite.write, srcWrite |-> 0]
    /\ UNCHANGED <<readVars, dropVars, linuxVars, status, tasks, spawned, sentBy>>

\* The caller's logical async writes, numbered from 1 (history only): a
\* poll_write that follows a Pending one with the same buffer may be a
\* re-poll of that write (the poll contract allows a re-poll at any time);
\* any other poll_write starts the next write, and gives up the one before
\* it if that one was still pending.
CanRepoll(buf) ==
    /\ lastWrite.op = "poll_write"
    /\ lastWrite.poll = "Pending"
    /\ lastWrite.buf = buf

WriteOf(fresh) == IF fresh THEN lastWrite.write + 1 ELSE lastWrite.write

\* AsyncWrite::poll_write: a result waiting in the status channel completes
\* the poll; otherwise a blocking task is dispatched with a copy of the
\* buffer and a clone of the waker, and the poll is Pending.  A status entry
\* carries, beside the io::Result, the task, the buffer and the logical
\* write it came from and the driver's answer (history only).
PollWrite ==
    /\ ConsumerFree
    /\ status # <<>> \/ spawned < MaxSpawn
    /\ \E buf \in WriteBufs, w \in workload.wakers, fresh \in BOOLEAN :
        /\ fresh \/ CanRepoll(buf)
        /\ IF status # <<>>
           THEN /\ lastWrite' = [op |-> "poll_write", poll |-> "Ready",
                                 result |-> Head(status).result, buf |-> buf,
                                 alloc |-> Head(status).alloc,
                                 src |-> Head(status).task,
                                 srcBuf |-> Head(status).buf,
                                 write |-> WriteOf(fresh),
                                 srcWrite |-> Head(status).write]
                /\ status' = Tail(status)
                /\ UNCHANGED <<tasks, spawned>>
           ELSE /\ spawned' = spawned + 1
                /\ tasks' = [t \in DOMAIN tasks \cup {spawned + 1} |->
                               IF t = spawned + 1
                               THEN [pc |-> "spawned", buf |-> buf, waker |-> w,
                                     alloc |-> AllocOk, result |-> Ok(0),
                                     write |-> WriteOf(fresh)]
                               ELSE tasks[t]]
                /\ lastWrite' = [op |-> "poll_write", poll |-> "Pending",
                                 result |-> Ok(0), buf |-> buf,
                                 alloc |-> AllocOk, src |-> spawned + 1,
                                 srcBuf |-> buf, write |-> WriteOf(fresh),
                                 srcWrite |-> WriteOf(fresh)]
                /\ UNCHANGED status
    /\ UNCHANGED <<readVars, dropVars, linuxVars, sentBy>>

\* The blocking task enters do_write (the driver's send entry points).
TaskEnter(t) ==
    /\ tasks[t].pc = "spawned"
    /\ tasks' = [tasks EXCEPT ![t].pc = "sending"]
    /\ UNCHANGED <<readVars, dropVars, linuxVars, status, spawned, lastWrite, sentBy>>

\* do_write returns in the blocking task; with a packet allocated it has
\* copied the buffer and called WintunSendPacket.
TaskReturn(t) ==
    /\ tasks[t].pc = "sending"
    /\ \E alloc \in AllocResponses :
        /\ tasks' = [tasks EXCEPT ![t].pc = "store",
                                  ![t].alloc = alloc,
                                  ![t].result = DoWrite(tasks[t].buf, alloc)]
        /\ sentBy' = IF alloc = AllocOk
                     THEN sentBy \cup {<<tasks[t].write, t>>}
                     ELSE sentBy
    /\ UNCHANGED <<readVars, dropVars, linuxVars, status, spawned, lastWrite>>

\* inner_write_status_tx.send(result): waits while the slot is taken; once
\* the Queue is gone the receiver is gone, the send fails and the failure is
\* ignored.
TaskStore(t) ==
    /\ tasks[t].pc = "store"
    /\ IF dpc = "dropped"
       THEN UNCHANGED status
       ELSE /\ CanSend(status, StatusCap)
            /\ status' = Append(status, [result |-> tasks[t].result, task |-> t,
                                         buf |-> tasks[t].buf,
                                         alloc |-> tasks[t].alloc,
                                         write |-> tasks[t].write])
    /\ tasks' = [tasks EXCEPT ![t].pc = "wake"]
    /\ UNCHANGED <<readVars, dropVars, linuxVars, spawned, lastWrite, sentBy>>

\* waker.wake(), and the task ends.
TaskWake(t) ==
    /\ tasks[t].pc = "wake"
    /\ woken' = woken \cup {tasks[t].waker}
    /\ tasks' = [u \in DOMAIN tasks \ {t} |-> tasks[u]]
    /\ UNCHANGED <<workload, emitted, rpc, rframe, rerr, rwaker, packets, wakers, cpc,
                   cwaker, cbuf, popped, discarded, lastRead, dropVars, linuxVars, status,
                   spawned, lastWrite, sentBy>>

TaskStep ==
    \E t \in DOMAIN tasks :
        \/ TaskEnter(t)
        \/ TaskReturn(t)
        \/ TaskStore(t)
        \/ TaskWake(t)

\* One blocking task, as the runtime's blocking pool runs it.
TaskRun(t) ==
    /\ t \in DOMAIN tasks
    /\ \/ TaskEnter(t)
       \/ TaskReturn(t)
       \/ TaskStore(t)
       \/ TaskWake(t)

\* The blocking tasks inside the driver's send entry points.
Sending == {t \in DOMAIN tasks : tasks[t].pc = "sending"}

\* ------------------------------------------ Linux readiness-driven queue
\* platform/linux/queue.rs: the Queue of the Linux build, a non-blocking
\* /dev/net/tun descriptor wrapped in an AsyncFd.  A Linux build holds no
\* Thread-Bridged Queue and the other way round.
Layers == {"L2", "L3"}

\* libc's if_tun flag bits.
IFF_TUN == 1
IFF_TAP == 2
IFF_NO_PI == 4096

HasFlag(flags, f) == (flags \div f) % 2 = 1

\* Queue::new: let init_flags = match layer { L2 => IFF_TAP, L3 => IFF_TUN }
InitFlags(layer) == IF layer = "L2" THEN IFF_TAP ELSE IFF_TUN

NoRaw == [kind |-> "none", n |-> 0, data |-> <<>>]

NoLinuxRead ==
    [op |-> "none", poll |-> "none", kind |-> "none", n |-> 0, data |-> <<>>,
     retries |-> 0]

\* Queue::new: the interface request carries init_flags to TUNSETIFF.
LinuxNew ==
    /\ lpc = "new"
    /\ lflags' = InitFlags(llayer)
    /\ lpc' = "idle"
    /\ UNCHANGED <<readVars, writeVars, dropVars, llayer, lready, lq, larrived,
                   lcap, lfilled, lretries, lraw, llast>>

\* The kernel queues a packet for the descriptor.
KernelArrive ==
    /\ lpc \notin {"absent", "new"}
    /\ larrived < MaxLinuxPackets
    /\ \E len \in 1..MaxFrameLen :
        lq' = Append(lq, FrameBytes(larrived + 1, len))
    /\ larrived' = larrived + 1
    /\ UNCHANGED <<readVars, writeVars, dropVars, llayer, lflags, lpc, lready,
                   lcap, lfilled, lretries, lraw, llast>>

\* The runtime's I/O driver reports the descriptor readable: the AsyncFd
\* caches the readiness until a would-block clears it.
LinuxReactor ==
    /\ lpc \notin {"absent", "new"}
    /\ lq # <<>>
    /\ ~lready
    /\ lready' = TRUE
    /\ UNCHANGED <<readVars, writeVars, dropVars, llayer, lflags, lpc, lq,
                   larrived, lcap, lfilled, lretries, lraw, llast>>

\* struct tun_pi, the packet-information header the kernel puts in front of
\* every packet unless IFF_NO_PI was requested: two bytes of flags, two of
\* protocol (IPv4 here).  TUN_PKT_STRIP is set in the flags when the read
\* buffer was too short for header and packet.
PiHeaderLen == 4
TUN_PKT_STRIP == 1
PiHeader(strip) == <<(IF strip THEN TUN_PKT_STRIP ELSE 0), 0, 8, 0>>

HeaderLen(flags) == IF HasFlag(flags, IFF_NO_PI) THEN 0 ELSE PiHeaderLen

\* What the device hands to a read: the header, if any, and the packet.
Delivered(pkt, cap, flags) ==
    IF HeaderLen(flags) = 0
    THEN pkt
    ELSE PiHeader(cap < HeaderLen(flags) + Len(pkt)) \o pkt

\* What read(2) on the non-blocking descriptor answers to a buffer of cap
\* bytes: a zero-length read returns 0 before the queue is looked at; else
\* would-block on an empty queue, EINVAL when the buffer cannot hold the
\* header, else the packet.
RawOutcome(q, cap, flags) ==
    IF cap = 0 THEN "Ok"
    ELSE IF q = <<>> THEN "WouldBlock"
    ELSE IF cap < HeaderLen(flags) THEN "Invalid"
    ELSE "Ok"

\* fs::File::read into a buffer of cap bytes: one packet with its header,
\* cut to the buffer.
FileRead(q, cap, flags) ==
    LET kind == RawOutcome(q, cap, flags)
    IN  IF kind = "Ok" /\ cap > 0
        THEN LET full == Delivered(Head(q), cap, flags)
                 n == Min(cap, Len(full))
             IN  [kind |-> "Ok", n |-> n, data |-> SubSeq(full, 1, n)]
        ELSE [kind |-> kind, n |-> 0, data |-> <<>>]

\* The device queue after a read of cap bytes: untouched by a zero-length
\* read; otherwise the head packet is gone once the kernel has dequeued it,
\* the EINVAL answer included.
AfterFileRead(q, cap, kind) ==
    IF cap > 0 /\ kind \in {"Ok", "Invalid"} THEN Tail(q) ELSE q

\* The capacities of the caller's buffers: empty, shorter than the header,
\* and up to MaxBufLen bytes behind it.
LinuxCaps == 0..(PiHeaderLen + MaxBufLen)

\* Read::read (sync), delegated to the file: the cached readiness is not
\* touched.
LinuxSyncRead ==
    /\ lpc \in {"idle", "suspended"}
    /\ \E cap \in LinuxCaps :
        LET raw == FileRead(lq, cap, lflags)
        IN  /\ lraw' = raw
            /\ lq' = AfterFileRead(lq, cap, raw.kind)
            /\ llast' = [op |-> "read", poll |-> "none", kind |-> raw.kind,
                         n |-> raw.n, data |-> raw.data, retries |-> 0]
    /\ lpc' = "idle"
    /\ UNCHANGED <<readVars, writeVars, dropVars, llayer, lflags, lready,
                   larrived, lcap, lfilled, lretries>>

\* AsyncFd::poll_read_ready_mut: a guard when readiness is cached, Pending
\* when it is not, an error when the I/O driver is gone.
PollReadyOutcomes(ready) == (IF ready THEN {"Guard"} ELSE {"Pending"}) \cup {"Err"}

\* poll_read, from its entry or from the top of its loop up to try_io:
\* b = vec![0; buf.capacity()], then ready!(poll_read_ready_mut(cx))?.
LinuxPollReady ==
    /\ lpc \in {"idle", "suspended", "await"}
    /\ \E cap \in LinuxCaps, filled \in LinuxCaps,
          r \in PollReadyOutcomes(lready) :
        /\ filled <= cap
        /\ lpc = "await" => (cap = lcap /\ filled = lfilled)
        /\ lcap' = cap
        /\ lfilled' = filled
        /\ lretries' = IF lpc = "await" THEN lretries ELSE 0
        /\ CASE r = "Guard" ->
                    /\ lpc' = "tryio"
                    /\ UNCHANGED llast
             [] r = "Pending" ->
                    /\ lpc' = "suspended"
                    /\ llast' = [op |-> "poll_read", poll |-> "Pending",
                                 kind |-> "none", n |-> 0, data |-> <<>>,
                                 retries |-> lretries']
             [] r = "Err" ->
                    /\ lpc' = "idle"
                    /\ llast' = [op |-> "poll_read", poll |-> "Ready",
                                 kind |-> "Other", n |-> 0, data |-> <<>>,
                                 retries |-> lretries']
    /\ UNCHANGED <<readVars, writeVars, dropVars, llayer, lflags, lready, lq,
                   larrived, lraw>>

\* A try_io that hands a would-block answer to its caller like any other.
TryIoPassesWouldBlock(raw) == [tag |-> "Ok", clear |-> FALSE, result |-> raw]

\* AsyncFdReadyGuard::try_io: a would-block answer clears the cached
\* readiness and comes back as Err(TryIoError); any other answer comes back
\* as Ok(answer).
TryIo(raw) ==
    IF raw.kind = "WouldBlock"
    THEN [tag |-> "Err", clear |-> TRUE, result |-> raw]
    ELSE [tag |-> "Ok", clear |-> FALSE, result |-> raw]

\* ReadBuf::put_slice panics when the slice is longer than buf.remaining().
PutSlicePanics(n, cap, filled) == n > cap - filled

\* poll_read, the match on guard.try_io(read): Err loops, Ok(n) returns
\* Ready(n.map(|n| buf.put_slice(&b[..n]))).  A panic in put_slice leaves
\* the Queue as it is: the packet is gone, the next call goes on.
LinuxTryIo ==
    /\ lpc = "tryio"
    /\ LET raw == FileRead(lq, lcap, lflags)
           g == TryIo(raw)
       IN  /\ lraw' = raw
           /\ lq' = AfterFileRead(lq, lcap, raw.kind)
           /\ lready' = IF g.clear THEN FALSE ELSE lready
           /\ IF g.tag = "Err"
              THEN /\ lpc' = "await"
                   /\ lretries' = lretries + 1
                   /\ UNCHANGED llast
              ELSE /\ UNCHANGED lretries
                   /\ lpc' = "idle"
                   /\ IF raw.kind = "Ok" /\ PutSlicePanics(raw.n, lcap, lfilled)
                      THEN llast' = [op |-> "poll_read", poll |-> "Panic",
                                     kind |-> raw.kind, n |-> raw.n,
                                     data |-> <<>>, retries |-> lretries]
                      ELSE llast' = [op |-> "poll_read", poll |-> "Ready",
                                     kind |-> raw.kind, n |-> raw.n,
                                     data |-> raw.data,
                                     retries |-> lretries]
    /\ UNCHANGED <<readVars, writeVars, dropVars, llayer, lflags, larrived,
                   lcap, lfilled>>

\* --------------------------------------------------------------------- Init
\* Queue::new: the receive thread is spawned at the top of its loop, the
\* channels are empty, the session is open.
\* The runs of the receive path: mixed frame and buffer lengths, reads into
\* zero-length buffers, and a burst that fills the frame channel.
ReadWorkloads ==
    {[lens |-> 1..MaxFrameLen, bufs |-> 1..MaxBufLen, wakers |-> Wakers,
      frames |-> MaxFrames],
     [lens |-> 1..MaxFrameLen, bufs |-> {0}, wakers |-> {"w1"},
      frames |-> MaxFrames],
     [lens |-> {1}, bufs |-> {1}, wakers |-> {"w1"}, frames |-> BurstFrames]}

\* A run of the transmit path: the driver has no frame to hand out.
WriteWorkload == [lens |-> {}, bufs |-> {}, wakers |-> {"w1"}, frames |-> 0]

InitQueue ==
    /\ emitted = 0
    /\ rpc = "recv"
    /\ rframe = NoFrame
    /\ rerr = 0
    /\ rwaker = NoWaker
    /\ packets = <<>>
    /\ wakers = <<>>
    /\ woken = {}
    /\ shutdownEvent = FALSE
    /\ dpc = "live"
    /\ session = "open"
    /\ cpc = "idle"
    /\ cwaker = NoWaker
    /\ cbuf = 0
    /\ popped = <<>>
    /\ discarded = {}
    /\ lastRead = NoRead
    /\ status = <<>>
    /\ tasks = <<>>
    /\ spawned = 0
    /\ lastWrite = NoWrite
    /\ sentBy = {}

\* The Linux queue, before Queue::new has run.
InitLinuxQueue ==
    /\ lflags = 0
    /\ lready = FALSE
    /\ lq = <<>>
    /\ larrived = 0
    /\ lcap = 0
    /\ lfilled = 0
    /\ lretries = 0
    /\ lraw = NoRaw
    /\ llast = NoLinuxRead

\* A Windows build: no Linux queue.
NoLinux == llayer = "L3" /\ lpc = "absent" /\ InitLinuxQueue

InitRead == workload \in ReadWorkloads /\ InitQueue /\ NoLinux

InitWrite == workload = WriteWorkload /\ InitQueue /\ NoLinux

Init == workload \in ReadWorkloads \cup {WriteWorkload} /\ InitQueue /\ NoLinux

\* A Linux build: Queue::new is about to run for either layer; the
\* Thread-Bridged Queue's state stays as constructed.
InitLinux ==
    /\ workload = WriteWorkload
    /\ InitQueue
    /\ llayer \in Layers
    /\ lpc = "new"
    /\ InitLinuxQueue

NextLinux ==
    \/ LinuxNew
    \/ KernelArrive
    \/ LinuxReactor
    \/ LinuxSyncRead
    \/ LinuxPollReady
    \/ LinuxTryIo

SpecLinux == InitLinux /\ [][NextLinux]_vars

NextRead ==
    \/ ReaderReceivePacket
    \/ ReaderReceiveNull
    \/ ReaderSend
    \/ ReaderDrain
    \/ ReaderWake
    \/ ReaderWait
    \/ SyncRead
    \/ PollReadTry
    \/ PollReadRegister
    \/ DropSignal
    \/ DropJoin
    \/ DropEndSession

SpecRead == InitRead /\ [][NextRead]_vars

NextWrite ==
    \/ SyncWrite
    \/ PollWrite
    \/ TaskStep

SpecWrite == InitWrite /\ [][NextWrite]_vars

Next == NextRead \/ NextWrite

Spec == Init /\ [][Next]_vars

\* The transmit path under fair scheduling: the blocking pool runs every
\* dispatched task whenever the task can take a step.  The caller is under
\* no obligation to poll again (a pending write may be given up).
LiveSpecWrite == SpecWrite /\ \A t \in 1..MaxSpawn : WF_vars(TaskRun(t))

\* The transmit path together with the destruction of the Queue: async
\* writes, their blocking tasks, the idle receive thread and Drop.
NextWriteDrop ==
    \/ PollWrite
    \/ TaskStep
    \/ ReaderReceiveNull
    \/ ReaderWait
    \/ DropSignal
    \/ DropJoin
    \/ DropEndSession

SpecWriteDrop == InitWrite /\ [][NextWriteDrop]_vars

\* The same system under fair scheduling: the receive thread and the thread
\* running Drop take a step whenever one stays possible.
LiveSpecRead == SpecRead /\ WF_vars(ReaderStep) /\ WF_vars(DropStep)

\* ------------------------------------------------------------------- claims
IsPrefix(s, t) == Len(s) <= Len(t) /\ \A i \in 1..Len(s) : s[i] = t[i]
Emission == [i \in 1..emitted |-> i]
\* The frames on their way to the consumer, oldest first.
InTransit == packets \o (IF rframe = NoFrame THEN <<>> ELSE <<rframe>>)

\* C1: at most one blocking task is inside the driver's send entry points
\* (do_write) at any time, however poll_write is called.
C1_WriteSerialization == Cardinality(Sending) <= 1

\* C2: Drop signals the shutdown event, then joins the receive thread, then
\* ends the session: whenever Drop is at or past the call of WintunEndSession
\* the event is set and the receive thread has ended (it is in no driver
\* call), and the session is ended by that call only.
C2_ShutdownOrdering ==
    /\ dpc \in {"ending", "dropped"} => shutdownEvent /\ rpc \in Terminated
    /\ dpc # "live" => shutdownEvent
    /\ session = "ended" <=> dpc = "dropped"

\* C2 happens: the session was ended after the receive thread, which had
\* forwarded frames, left its loop on the shutdown event.
C2_Witness == session = "ended" /\ rpc = "exited" /\ emitted > 0

\* C3: once Drop has signaled the shutdown event, the receive thread exits,
\* the join returns and the session is ended.
C3_DestructionTerminates == (dpc = "joining") ~> (session = "ended")

\* C4: the frames popped by completed reads are, in order, the first frames
\* the driver handed out, and the frames behind them are still on their way
\* in emission order: nothing is dropped, duplicated or reordered, a full
\* channel included.
C4_ReceiveOrder ==
    /\ IsPrefix(popped, Emission)
    /\ Len(popped) + Len(InTransit) = emitted
    /\ \A i \in 1..Len(InTransit) : FrameId(InTransit[i]) = Len(popped) + i
    /\ Len(packets) <= PacketCap

\* C5: a read that pops a frame longer than the caller's buffer returns
\* exactly the buffer's length of bytes, the frame's first ones, and the bytes
\* cut off are gone: no later read returns them and no channel holds them.
C5_Truncation ==
    /\ (lastRead.frame # NoFrame /\ lastRead.M < Len(lastRead.frame)) =>
            /\ lastRead.kind = "Ok"
            /\ lastRead.n = lastRead.M
            /\ lastRead.data = SubSeq(lastRead.frame, 1, lastRead.M)
    /\ discarded \cap Range(lastRead.data) = {}
    /\ \A i \in 1..Len(InTransit) : discarded \cap Range(InTransit[i]) = {}

\* C5 happens: a frame was truncated and a later read has returned the bytes
\* of the next frame.
C5_Witness ==
    /\ lastRead.kind = "Ok"
    /\ lastRead.n > 0
    /\ \E b \in discarded : b \div 16 < FrameId(lastRead.frame)

\* C6: a read or poll_read that pops a frame of length K into a buffer of
\* length M completes normally with the frame's first min(K, M) bytes.
C6_ReadResult ==
    lastRead.frame # NoFrame =>
        LET K == Len(lastRead.frame)
        IN  /\ lastRead.kind = "Ok"
            /\ lastRead.n = Min(K, lastRead.M)
            /\ lastRead.data = SubSeq(lastRead.frame, 1, Min(K, lastRead.M))

\* C7 as claimed: a read or poll_read called after the receive thread has
\* ended returns a zero-length success.
C7_EndOfStream ==
    lastRead.readerGone => lastRead.kind = "Ok" /\ lastRead.n = 0

\* C7, amended: a read or poll_read called after the receive thread has ended
\* and with no frame left in the channel returns a zero-length success (the
\* frames the thread had pushed are returned first).
C7_EndOfStreamDrained ==
    (lastRead.readerGone /\ lastRead.chanEmpty) =>
        lastRead.kind = "Ok" /\ lastRead.n = 0 /\ lastRead.data = <<>>

\* C7 happens: the receive thread aborted, the frames it had pushed were
\* read, and a poll_read after that found the channel empty.
C7_Witness ==
    /\ lastRead.readerGone
    /\ lastRead.chanEmpty
    /\ lastRead.op = "poll_read"
    /\ rpc = "panicked"
    /\ popped # <<>>

\* C8: no lost wakeup: there is no state in which a poll_read has returned
\* Pending, a frame is in the channel, the waker of that poll has not been
\* woken, and the receive thread is neither about to drain the wakers nor
\* about to wake that waker.
C8_NoLostWakeup ==
    ~ /\ dpc = "live"
      /\ cpc = "suspended"
      /\ lastRead.kind = "Pending"
      /\ packets # <<>>
      /\ cwaker \notin woken
      /\ rpc # "drain"
      /\ ~(rpc = "wake" /\ rwaker = cwaker)

\* What do_write is to return for a driver answer, as the claim words it.
Translates(r, buf, alloc) ==
    /\ alloc = AllocOk => r.ok /\ r.n = Len(buf)
    /\ alloc = ERROR_BUFFER_OVERFLOW => ~r.ok /\ r.kind = "WouldBlock"
    /\ alloc \notin {AllocOk, ERROR_BUFFER_OVERFLOW} =>
            ~r.ok /\ r.kind = "Os" /\ r.code = alloc

\* C9: do_write returns Ok(len of the buffer) when the allocation succeeds, a
\* WouldBlock error when it fails with the buffer-overflow code, and the OS
\* error itself for any other code; that is what a sync write returns and
\* what a blocking task holds and puts in the status slot.
C9_OverflowTranslation ==
    /\ lastWrite.op = "write" =>
            Translates(lastWrite.result, lastWrite.buf, lastWrite.alloc)
    /\ \A t \in DOMAIN tasks :
            tasks[t].pc \in {"store", "wake"} =>
                Translates(tasks[t].result, tasks[t].buf, tasks[t].alloc)
    /\ \A i \in 1..Len(status) :
            Translates(status[i].result, status[i].buf, status[i].alloc)

\* C9 happens: the status slot holds the outcome of a send that met a full
\* ring, and a sync write has returned another OS error.
C9_Witness ==
    /\ status # <<>>
    /\ status[1].alloc = ERROR_BUFFER_OVERFLOW
    /\ lastWrite.op = "write"
    /\ lastWrite.alloc \in OtherErrors

\* C10: no poll_read and no poll_write completes with a WouldBlock error.
C10_NoWouldBlockReady ==
    /\ ~ /\ lastWrite.op = "poll_write"
         /\ lastWrite.poll = "Ready"
         /\ ~lastWrite.result.ok
         /\ lastWrite.result.kind = "WouldBlock"
    /\ ~ /\ lastRead.op = "poll_read"
         /\ lastRead.kind = "WouldBlock"

\* C11: a poll_read that returns Pending leaves the frame channel as it
\* was; a frame leaves the channel only in a read or poll_read that
\* completes with that frame's bytes; so whenever the consumer can issue its
\* next read (a pending one given up included), the head of the channel is
\* the oldest frame not yet delivered.
C11_ReadCancellationSafe ==
    [][/\ Len(packets') < Len(packets) =>
            /\ packets' = Tail(packets)
            /\ cpc' # "registering"
            /\ lastRead'.frame = Head(packets)
            /\ lastRead'.kind = "Ok"
            /\ lastRead'.data = SubSeq(Head(packets), 1, lastRead'.n)
       /\ (cpc' \in {"registering", "suspended"} /\ cpc' # cpc) =>
            \A i \in 1..Len(packets) : packets'[i] = packets[i]
       /\ (ConsumerFree /\ packets # <<>>) =>
            FrameId(Head(packets)) = Len(popped) + 1]_vars

\* C19: the receive thread takes wakers only right after the push of a frame
\* into the channel; it takes every queued waker out at once and wakes
\* exactly the most recently registered of them, or nobody when none was
\* queued; it wakes nowhere else.
C19_WakePolicy ==
    [][/\ (rpc' = "drain" /\ rpc # "drain") =>
            /\ rpc = "send"
            /\ rframe # NoFrame
            /\ packets' = Append(packets, rframe)
       /\ (rpc = "drain" /\ rpc' # "drain") =>
            /\ wakers' = <<>>
            /\ woken' = woken
            /\ wakers = <<>> => (rpc' = "recv" /\ rwaker' = NoWaker)
            /\ wakers # <<>> =>
                    (rpc' = "wake" /\ rwaker' = wakers[Len(wakers)])
       /\ (rpc = "wake" /\ rpc' # "wake") =>
            /\ rpc' = "recv"
            /\ woken' = woken \cup {rwaker}
       /\ ~(woken' \subseteq woken) =>
            (rpc = "wake" /\ woken' \ woken = {rwaker})]_vars

\* C19 happens: the thread has pushed its first frame and drained the waker
\* channel, and the waker of the latest poll_read is the one woken.
C19_Witness ==
    /\ emitted = 1
    /\ rpc = "recv"
    /\ lastRead.kind = "Pending"
    /\ cwaker = "w2"
    /\ woken = {"w2"}
    /\ wakers = <<>>

\* C20: the receive thread ends only out of the dual wait, normally only
\* when the shutdown event is set; it enters the wait only after a receive
\* attempt that failed with 'no more items'; a data-ready wait outcome and
\* any other receive error take it back to the receive call at once.
C20_ReaderControlFlow ==
    [][/\ (rpc' \in Terminated /\ rpc \notin Terminated) =>
            /\ rpc = "wait"
            /\ rpc' = "exited" => shutdownEvent
       /\ (rpc' = "wait" /\ rpc # "wait") =>
            /\ rpc = "recv"
            /\ rerr' = ERROR_NO_MORE_ITEMS
       /\ (rpc = "recv" /\ rerr' # rerr /\ rerr' \in OtherErrors) =>
            rpc' = "recv"
       /\ (rpc = "wait" /\ rpc' # "wait" /\ rpc' \notin Terminated) =>
            /\ rpc' = "recv"
            /\ ~shutdownEvent]_vars

\* C20 happens: with the shutdown event already set, the thread is back at
\* the receive call after a receive error other than 'no more items'.
C20_Witness ==
    /\ shutdownEvent
    /\ rpc = "recv"
    /\ rerr \in OtherErrors

\* C12: the outcome a poll_write completes with is the outcome of a task
\* dispatched for the logical write being polled, never that of an earlier
\* write (one given up while pending included).
C12_AbandonedResultDiscarded ==
    (lastWrite.op = "poll_write" /\ lastWrite.poll = "Ready") =>
        lastWrite.srcWrite = lastWrite.write

\* C13: the buffer of one logical async write is handed to WintunSendPacket
\* at most once, however often the write is polled.
C13_AtMostOnceTransmit ==
    \A p \in sentBy, q \in sentBy : p[1] = q[1] => p[2] = q[2]

\* C16: a poll_write called with buffer B that completes with Ready(Ok(n))
\* reports a task that was dispatched for B and sent B whole: n = Len(B).
C16_ResultCorrespondence ==
    (lastWrite.op = "poll_write" /\ lastWrite.poll = "Ready"
        /\ lastWrite.result.ok) =>
        /\ lastWrite.srcBuf = lastWrite.buf
        /\ lastWrite.alloc = AllocOk
        /\ lastWrite.result.n = Len(lastWrite.buf)

\* C17: the driver session is never ended while a dispatched blocking task
\* is inside do_write or has yet to enter it.
C17_SessionOutlivesWrites ==
    session = "ended" =>
        \A t \in DOMAIN tasks : tasks[t].pc \notin {"spawned", "sending"}

\* C18: every blocking task dispatched by a Pending poll_write eventually
\* stores its outcome in the status channel, wakes the waker it captured
\* and ends; none stays blocked on a full status channel.
C18_WriteCompletes ==
    \A t \in 1..MaxSpawn : (t \in DOMAIN tasks) ~> (t \notin DOMAIN tasks)

\* C14: the Linux poll_read returns Pending only when no read readiness is
\* cached, and then without a read attempt; it attempts the read only under
\* readiness; an attempt answered would-block clears the readiness and goes
\* back to awaiting it; any other answer ends the call, and a poll_read
\* returns Ready only with the bytes of a successful read or with an error
\* that is not would-block.
C14_ReadinessLoop ==
    [][/\ (lpc' = "tryio" /\ lpc # "tryio") => lready
       /\ (lpc' = "suspended" /\ llast' # llast) =>
            /\ ~lready
            /\ lpc # "tryio"
            /\ lq' = lq
            /\ llast'.poll = "Pending"
       /\ (lpc = "tryio" /\ lpc' # "tryio" /\ lraw'.kind = "WouldBlock") =>
            /\ lpc' = "await"
            /\ lready' = FALSE
            /\ llast' = llast
       /\ (lpc = "tryio" /\ lpc' # "tryio" /\ lraw'.kind # "WouldBlock") =>
            /\ lpc' = "idle"
            /\ llast'.poll = "Ready" =>
                    /\ llast'.kind = lraw'.kind
                    /\ llast'.n = lraw'.n
                    /\ llast'.data = lraw'.data
       /\ (llast'.op = "poll_read" /\ llast'.poll = "Ready") =>
            llast'.kind \in {"Ok", "Invalid", "Other"}]_vars

\* C14 happens: a poll_read met a would-block answer under stale readiness,
\* went back to awaiting readiness, and completed with a packet's bytes.
C14_Witness ==
    /\ llast.op = "poll_read"
    /\ llast.poll = "Ready"
    /\ llast.kind = "Ok"
    /\ llast.n > 0
    /\ llast.retries > 0

\* C15: the flags Queue::new hands to the kernel select the framing of the
\* layer (TAP for L2, TUN for L3) and ask for no packet-information header.
C15_FramingFlags ==
    lpc \notin {"absent", "new"} =>
        /\ llayer = "L2" => (HasFlag(lflags, IFF_TAP) /\ ~HasFlag(lflags, IFF_TUN))
        /\ llayer = "L3" => (HasFlag(lflags, IFF_TUN) /\ ~HasFlag(lflags, IFF_TAP))
        /\ HasFlag(lflags, IFF_NO_PI)

=============================================================================
